---------------------------- MODULE Spec2Model ----------------------------
(***************************************************************************)
(* Model of palettepal's colour engine (src/palettepal/palette.py): the    *)
(* conversion layer (RGB <-> HSL, RGB <-> RYB, hex codec) and the Color    *)
(* value type with its transformations and harmonies.                      *)
(*                                                                         *)
(* Numbers.  Python floats are modelled as exact rationals <<n, d>> in     *)
(* lowest terms with d > 0.  The one place where binary floating point     *)
(* and exact arithmetic part ways on the inputs drawn here is the rounding *)
(* int(x + .5) when x + .5 is exactly an integer N: the float sum carries  *)
(* the rounding error of the operations before it and may land just below  *)
(* N, so the truncation yields N-1 or N.  IntHalfUp returns the set of     *)
(* both outcomes there, and the single outcome everywhere else.            *)
(*                                                                         *)
(* Strings are sequences of one-character strings.                         *)
(***************************************************************************)
EXTENDS Integers, Sequences, FiniteSets, TLC

VARIABLES
    pc,      \* the input drawn ("in_rgb", "in_hsl", "in_hex", "in_name", "in_color"),
             \* then the operation applied last
    rgb0,    \* the triple given to a conversion from RGB or from RYB
    hsl,     \* the HSL triple given to hsl_to_rgb / returned by rgb_to_hsl
    rgb1,    \* the RGB triple returned by hsl_to_rgb, hex_to_rgb or ryb_to_rgb
    str,     \* the string given to hex_to_rgb or from_name / returned by rgb_to_hex
    err,     \* TRUE when the last operation raised an exception
    self,    \* the receiver Color: [h, s, l, ryb]
    args,    \* the arguments of the last Color operation: [theta, add, mult]
    out,     \* the Colors returned by the last Color operation, in order
    ryb1,    \* the RYB triple returned by rgb_to_ryb
    view,    \* the properties read from the receiver: [rgb, ryb, hex]
    cvt,     \* the table given to convert and the triple it returned: [table, val]
    slider,  \* a Slider on its own: [value, maximum, wrap]
    palette_name,  \* PalettePal: the value of the '#palette' Select, "" when blank
    swatches,      \* PalettePal: '#color1' .. '#color5', each [color, selected, display]
    picker,        \* the ColorPicker: [mode, ryb, value, maximum], three sliders
    numbers,       \* the ColorNumbers: [color, normalized, disabled]
    queue,         \* the messages posted and not yet handled, oldest first
    events,        \* the number of user events so far
    set_arg        \* the Color given to the last set_color call

\* The variables of the conversion layer and the Color type, and those of
\* the widgets and the application.
uivars == <<slider, palette_name, swatches, picker, numbers, queue, events, set_arg>>
vars == <<pc, rgb0, hsl, rgb1, str, err, self, args, out, ryb1, view, cvt, uivars>>

---------------------------------------------------------------------------
(* Exact rationals *)

RECURSIVE Gcd(_, _)
Gcd(a, b) == IF b = 0 THEN a ELSE Gcd(b, a % b)

Abs(x) == IF x < 0 THEN -x ELSE x

Rat(n, d) ==
    LET g == Gcd(Abs(n), Abs(d))
        sg == IF d < 0 THEN -1 ELSE 1
    IN  <<(sg * n) \div g, (sg * d) \div g>>

R(i) == <<i, 1>>
\* Sums go over the least common denominator and products are reduced
\* crosswise first, which keeps the intermediate integers small.
RAdd(a, b) ==
    LET g == Gcd(a[2], b[2])
    IN  Rat(a[1] * (b[2] \div g) + b[1] * (a[2] \div g), (a[2] \div g) * b[2])
RSub(a, b) == RAdd(a, <<-b[1], b[2]>>)
RMul(a, b) ==
    LET g1 == Gcd(Abs(a[1]), b[2])
        g2 == Gcd(Abs(b[1]), a[2])
    IN  Rat((a[1] \div g1) * (b[1] \div g2), (a[2] \div g2) * (b[2] \div g1))
RDiv(a, b) == RMul(a, IF b[1] < 0 THEN <<-b[2], -b[1]>> ELSE <<b[2], b[1]>>)
RNeg(a) == <<-a[1], a[2]>>
RLt(a, b) == LET g == Gcd(a[2], b[2])
             IN  a[1] * (b[2] \div g) < b[1] * (a[2] \div g)
RLe(a, b) == ~RLt(b, a)
RMax(a, b) == IF RLt(a, b) THEN b ELSE a
RMin(a, b) == IF RLt(b, a) THEN b ELSE a
\* Python's x % m for a positive integer m: the result has the sign of m.
RMod(a, m) == Rat(a[1] % (m * a[2]), a[2])
IsInt(a) == a[2] = 1

\* The outcomes of int(x + .5): truncation toward zero of the float sum.
IntHalfUp(x) ==
    LET y == RAdd(x, <<1, 2>>)
        q == y[1] \div y[2]
    IN  IF y[2] = 1
        THEN IF q > 0 THEN {q - 1, q} ELSE IF q < 0 THEN {q, q + 1} ELSE {0}
        ELSE IF q >= 0 THEN {q} ELSE {q + 1}

---------------------------------------------------------------------------
(* colorsys, as palette.py calls it (CPython's Lib/colorsys.py) *)

rgb_to_hls(r, g, b) ==
    LET maxc == RMax(r, RMax(g, b))
        minc == RMin(r, RMin(g, b))
        sumc == RAdd(maxc, minc)
        rangec == RSub(maxc, minc)
        l == RDiv(sumc, R(2))
    IN  IF minc = maxc THEN <<R(0), l, R(0)>>
        ELSE LET s == IF RLe(l, <<1, 2>>)
                      THEN RDiv(rangec, sumc)
                      ELSE RDiv(rangec, RSub(RSub(R(2), maxc), minc))
                 rc == RDiv(RSub(maxc, r), rangec)
                 gc == RDiv(RSub(maxc, g), rangec)
                 bc == RDiv(RSub(maxc, b), rangec)
                 h == IF r = maxc THEN RSub(bc, gc)
                      ELSE IF g = maxc THEN RSub(RAdd(R(2), rc), bc)
                      ELSE RSub(RAdd(R(4), gc), rc)
             IN  <<RMod(RDiv(h, R(6)), 1), l, s>>

\* _v without the reduction of the hue modulo 1.
V_nowrap(m1, m2, hue) ==
    IF RLt(hue, <<1, 6>>)
    THEN RAdd(m1, RMul(RMul(RSub(m2, m1), hue), R(6)))
    ELSE IF RLt(hue, <<1, 2>>) THEN m2
    ELSE IF RLt(hue, <<2, 3>>)
    THEN RAdd(m1, RMul(RMul(RSub(m2, m1), RSub(<<2, 3>>, hue)), R(6)))
    ELSE m1

V(m1, m2, hue0) ==
    LET hue == RMod(hue0, 1)
    IN  IF RLt(hue, <<1, 6>>)
        THEN RAdd(m1, RMul(RMul(RSub(m2, m1), hue), R(6)))
        ELSE IF RLt(hue, <<1, 2>>) THEN m2
        ELSE IF RLt(hue, <<2, 3>>)
        THEN RAdd(m1, RMul(RMul(RSub(m2, m1), RSub(<<2, 3>>, hue)), R(6)))
        ELSE m1

hls_to_rgb(h, l, s) ==
    IF s = R(0) THEN <<l, l, l>>
    ELSE LET m2 == IF RLe(l, <<1, 2>>)
                   THEN RMul(l, RAdd(R(1), s))
                   ELSE RSub(RAdd(l, s), RMul(l, s))
             m1 == RSub(RMul(R(2), l), m2)
         IN  <<V(m1, m2, RAdd(h, <<1, 3>>)), V(m1, m2, h), V(m1, m2, RSub(h, <<1, 3>>))>>

---------------------------------------------------------------------------
(* Conversion layer *)

\* rgb_to_hsl returning colorsys's (h, l, s) order as it comes.
rgb_to_hsl_hls(r, g, b) ==
    LET hls == rgb_to_hls(Rat(r, 255), Rat(g, 255), Rat(b, 255))
    IN  {<<h, l, s>> : h \in IntHalfUp(RMul(hls[1], R(360))),
                       s \in IntHalfUp(RMul(hls[3], R(100))),
                       l \in IntHalfUp(RMul(hls[2], R(100)))}

\* rgb_to_hsl(r, g, b): the set of HSL triples (integers) the call can return.
rgb_to_hsl(r, g, b) ==
    LET hls == rgb_to_hls(Rat(r, 255), Rat(g, 255), Rat(b, 255))
    IN  {<<h, s, l>> : h \in IntHalfUp(RMul(hls[1], R(360))),
                       s \in IntHalfUp(RMul(hls[3], R(100))),
                       l \in IntHalfUp(RMul(hls[2], R(100)))}

\* hsl_to_rgb handing saturation and lightness to colorsys in HSL order.
hsl_to_rgb_swapped(h, s, l) ==
    LET n == hls_to_rgb(RDiv(h, R(360)), RDiv(s, R(100)), RDiv(l, R(100)))
    IN  {<<r, g, b>> : r \in IntHalfUp(RMul(n[1], R(255))),
                       g \in IntHalfUp(RMul(n[2], R(255))),
                       b \in IntHalfUp(RMul(n[3], R(255)))}

\* hsl_to_rgb scaling the channels by 256.
hsl_to_rgb_256(h, s, l) ==
    LET n == hls_to_rgb(RDiv(h, R(360)), RDiv(l, R(100)), RDiv(s, R(100)))
    IN  IF s = R(0)
        THEN {<<v, v, v>> : v \in IntHalfUp(RMul(n[1], R(256)))}
        ELSE {<<r, g, b>> : r \in IntHalfUp(RMul(n[1], R(256))),
                            g \in IntHalfUp(RMul(n[2], R(256))),
                            b \in IntHalfUp(RMul(n[3], R(256)))}

\* hsl_to_rgb(h, s, l) on rationals: the set of RGB triples it can return.
\* With s = 0 colorsys returns the same float three times, so the three
\* channels round alike.
hsl_to_rgb(h, s, l) ==
    LET n == hls_to_rgb(RDiv(h, R(360)), RDiv(l, R(100)), RDiv(s, R(100)))
    IN  IF s = R(0)
        THEN {<<v, v, v>> : v \in IntHalfUp(RMul(n[1], R(255)))}
        ELSE {<<r, g, b>> : r \in IntHalfUp(RMul(n[1], R(255))),
                            g \in IntHalfUp(RMul(n[2], R(255))),
                            b \in IntHalfUp(RMul(n[3], R(255)))}

HexDigits == <<"0", "1", "2", "3", "4", "5", "6", "7",
               "8", "9", "a", "b", "c", "d", "e", "f">>

RECURSIVE HexStr(_)
HexStr(n) == IF n < 16 THEN <<HexDigits[n + 1]>>
             ELSE HexStr(n \div 16) \o <<HexDigits[(n % 16) + 1]>>

\* format(n, 'x'): no zero padding.
Fmt02x_nopad(n) == IF n < 0 THEN <<"-">> \o HexStr(-n) ELSE HexStr(n)

HexDigitsUpper == <<"0", "1", "2", "3", "4", "5", "6", "7",
                    "8", "9", "A", "B", "C", "D", "E", "F">>

\* format(n, '02X'): upper-case digits.
Fmt02x_upper(n) ==
    LET d(k) == HexDigitsUpper[k + 1]
    IN  IF n < 0 THEN <<"-">> \o HexStr(-n)
        ELSE IF n < 256 THEN <<d(n \div 16), d(n % 16)>>
        ELSE HexStr(n)

\* format(n, '02x'): zero-padded to width 2, the sign counted in the width.
Fmt02x(n) == IF n < 0 THEN <<"-">> \o HexStr(-n)
             ELSE IF n < 16 THEN <<"0">> \o HexStr(n)
             ELSE HexStr(n)

rgb_to_hex(r, g, b) == <<"#">> \o Fmt02x(r) \o Fmt02x(g) \o Fmt02x(b)

\* The value of one hexadecimal digit, -1 for any other character.
HexVal(c) ==
    CASE c = "0" -> 0 [] c = "1" -> 1 [] c = "2" -> 2 [] c = "3" -> 3
      [] c = "4" -> 4 [] c = "5" -> 5 [] c = "6" -> 6 [] c = "7" -> 7
      [] c = "8" -> 8 [] c = "9" -> 9
      [] c \in {"a", "A"} -> 10 [] c \in {"b", "B"} -> 11
      [] c \in {"c", "C"} -> 12 [] c \in {"d", "D"} -> 13
      [] c \in {"e", "E"} -> 14 [] c \in {"f", "F"} -> 15
      [] OTHER -> -1

IsHexDigit(c) == HexVal(c) >= 0
IsSpace(c) == c \in {" "}

\* int(s, 16) for a slice s of at most two characters: [ok, val].  Python
\* strips surrounding whitespace and accepts one sign before the digits.
ParseInt16(s) ==
    LET fail == [ok |-> FALSE, val |-> 0]
        good(v) == [ok |-> TRUE, val |-> v]
    IN  IF Len(s) = 1
        THEN IF IsHexDigit(s[1]) THEN good(HexVal(s[1])) ELSE fail
        ELSE IF Len(s) = 2
        THEN IF IsHexDigit(s[1]) /\ IsHexDigit(s[2])
             THEN good(16 * HexVal(s[1]) + HexVal(s[2]))
             ELSE IF IsHexDigit(s[2]) /\ (IsSpace(s[1]) \/ s[1] = "+")
             THEN good(HexVal(s[2]))
             ELSE IF IsHexDigit(s[2]) /\ s[1] = "-" THEN good(-HexVal(s[2]))
             ELSE IF IsHexDigit(s[1]) /\ IsSpace(s[2]) THEN good(HexVal(s[1]))
             ELSE fail
        ELSE fail

\* str.lstrip('#'): every leading '#' goes.
RECURSIVE LStripHash(_)
LStripHash(s) == IF Len(s) > 0 /\ s[1] = "#" THEN LStripHash(Tail(s)) ELSE s

Min(a, b) == IF a < b THEN a ELSE b

\* The Python slice s[i:j] with 0 <= i <= j (0-based, end exclusive).
Slice(s, i, j) == SubSeq(s, Min(i, Len(s)) + 1, Min(j, Len(s)))

\* hex_to_rgb(color): [ok, rgb]; ok = FALSE models the ValueError of int().
hex_to_rgb(color) ==
    LET c == LStripHash(color)
        r == ParseInt16(Slice(c, 0, 2))
        g == ParseInt16(Slice(c, 2, 4))
        b == ParseInt16(Slice(c, 4, 6))
    IN  IF r.ok /\ g.ok /\ b.ok
        THEN [ok |-> TRUE, rgb |-> <<r.val, g.val, b.val>>]
        ELSE [ok |-> FALSE, rgb |-> <<>>]

---------------------------------------------------------------------------
(* RGB <-> RYB: trilinear interpolation over the unit cube.  Channels are  *)
(* integers c standing for c/255 and table entries are in thousandths, so  *)
(* a weighted sum is an integer over 255^3 * 1000; it is carried as        *)
(* <<A, B>> = 1000 * A + B to stay within 32-bit integers.                 *)

IRISSON_RYB_TO_RGB ==
    << <<1000, 1000, 1000>>, <<163, 373, 600>>, <<1000, 1000, 0>>, <<0, 660, 200>>,
       <<1000, 0, 0>>, <<500, 500, 900>>, <<1000, 500, 0>>, <<0, 0, 0>> >>

RGB_TO_RYB ==
    << <<1000, 1000, 1000>>, <<0, 0, 1000>>, <<0, 1000, 483>>, <<0, 53, 210>>,
       <<1000, 0, 0>>, <<309, 0, 469>>, <<0, 1000, 0>>, <<0, 0, 0>> >>

\* convert with the two weights of each axis exchanged.
convert_flipped(r, y, b, table) ==
    LET w(x, bit) == IF bit = 1 THEN 255 - x ELSE x
        T(i, j, ch) == w(b, 0) * table[4 * i + 2 * j + 1][ch]
                       + w(b, 1) * table[4 * i + 2 * j + 2][ch]
        P(i, j) == w(r, i) * w(y, j)
        A(ch) == P(0, 0) * (T(0, 0, ch) \div 1000) + P(0, 1) * (T(0, 1, ch) \div 1000)
                 + P(1, 0) * (T(1, 0, ch) \div 1000) + P(1, 1) * (T(1, 1, ch) \div 1000)
        B(ch) == P(0, 0) * (T(0, 0, ch) % 1000) + P(0, 1) * (T(0, 1, ch) % 1000)
                 + P(1, 0) * (T(1, 0, ch) % 1000) + P(1, 1) * (T(1, 1, ch) % 1000)
    IN  [ch \in 1 .. 3 |-> <<A(ch), B(ch)>>]

\* convert reading the corner index with the third dimension as the most
\* significant bit.
convert_lsb(r, y, b, table) ==
    LET w(x, bit) == IF bit = 1 THEN x ELSE 255 - x
        T(i, j, ch) == w(r, 0) * table[4 * j + 2 * i + 1][ch]
                       + w(r, 1) * table[4 * j + 2 * i + 2][ch]
        P(i, j) == w(y, i) * w(b, j)
        A(ch) == P(0, 0) * (T(0, 0, ch) \div 1000) + P(0, 1) * (T(0, 1, ch) \div 1000)
                 + P(1, 0) * (T(1, 0, ch) \div 1000) + P(1, 1) * (T(1, 1, ch) \div 1000)
        B(ch) == P(0, 0) * (T(0, 0, ch) % 1000) + P(0, 1) * (T(0, 1, ch) % 1000)
                 + P(1, 0) * (T(1, 0, ch) % 1000) + P(1, 1) * (T(1, 1, ch) % 1000)
    IN  [ch \in 1 .. 3 |-> <<A(ch), B(ch)>>]

\* convert(r, y, b, table): per output channel the sum of c_ijk * f_ijk[ch]
\* over the eight corners, f_ijk = table[4i + 2j + k + 1].
convert(r, y, b, table) ==
    LET w(x, bit) == IF bit = 1 THEN x ELSE 255 - x
        T(i, j, ch) == w(b, 0) * table[4 * i + 2 * j + 1][ch]
                       + w(b, 1) * table[4 * i + 2 * j + 2][ch]
        P(i, j) == w(r, i) * w(y, j)
        A(ch) == P(0, 0) * (T(0, 0, ch) \div 1000) + P(0, 1) * (T(0, 1, ch) \div 1000)
                 + P(1, 0) * (T(1, 0, ch) \div 1000) + P(1, 1) * (T(1, 1, ch) \div 1000)
        B(ch) == P(0, 0) * (T(0, 0, ch) % 1000) + P(0, 1) * (T(0, 1, ch) % 1000)
                 + P(1, 0) * (T(1, 0, ch) % 1000) + P(1, 1) * (T(1, 1, ch) % 1000)
    IN  [ch \in 1 .. 3 |-> <<A(ch), B(ch)>>]

\* The outcomes of int(x * 255 + .5) for x = (1000 * A + B) / (255^3 * 1000).
IntHalfUp255(ab) ==
    LET a == ab[1] + 32512 + ((ab[2] + 500) \div 1000)
        rem == (ab[2] + 500) % 1000
        q == a \div 65025
    IN  IF rem = 0 /\ a % 65025 = 0
        THEN IF q > 0 THEN {q - 1, q} ELSE IF q < 0 THEN {q, q + 1} ELSE {0}
        ELSE IF q >= 0 THEN {q} ELSE {q + 1}

ryb_to_rgb(ryb) ==
    LET rgb == convert(ryb[1], ryb[2], ryb[3], IRISSON_RYB_TO_RGB)
    IN  {<<r, g, b>> : r \in IntHalfUp255(rgb[1]), g \in IntHalfUp255(rgb[2]),
                       b \in IntHalfUp255(rgb[3])}

\* rgb_to_ryb interpolating over the RYB -> RGB table.
rgb_to_ryb_forward(rgb) ==
    LET ryb == convert(rgb[1], rgb[2], rgb[3], IRISSON_RYB_TO_RGB)
    IN  {<<r, y, b>> : r \in IntHalfUp255(ryb[1]), y \in IntHalfUp255(ryb[2]),
                       b \in IntHalfUp255(ryb[3])}

rgb_to_ryb(rgb) ==
    LET ryb == convert(rgb[1], rgb[2], rgb[3], RGB_TO_RYB)
    IN  {<<r, y, b>> : r \in IntHalfUp255(ryb[1]), y \in IntHalfUp255(ryb[2]),
                       b \in IntHalfUp255(ryb[3])}

---------------------------------------------------------------------------
(* Color value type *)

Color(h, s, l, ryb) == [h |-> h, s |-> s, l |-> l, ryb |-> ryb]

\* Entries of textual's table of colour names, COLOR_NAME_TO_RGB.
COLOR_NAME_TO_RGB ==
    (<<"r", "e", "d">> :> <<255, 0, 0>>)
    @@ (<<"b", "l", "u", "e">> :> <<0, 0, 255>>)
    @@ (<<"w", "h", "i", "t", "e">> :> <<255, 255, 255>>)
    @@ (<<"g", "r", "a", "y">> :> <<128, 128, 128>>)

\* textual's Color.parse(color_text), as from_name calls it: [ok, rgb], with
\* ok = FALSE for its ColorParseError.  A name of the table gives its
\* entry; otherwise the text is matched against the CSS colour forms, of
\* which the hexadecimal ones are modelled: '#' and 3, 4, 6 or 8 digits
\* (the 4th and 8th being alpha, which from_name drops).
parse(color_text) ==
    LET n == Len(color_text)
        d(i) == HexVal(color_text[i])
        fail == [ok |-> FALSE, rgb |-> <<>>]
    IN  IF color_text \in DOMAIN COLOR_NAME_TO_RGB
        THEN [ok |-> TRUE, rgb |-> COLOR_NAME_TO_RGB[color_text]]
        ELSE IF /\ n \in {4, 5, 7, 9} /\ color_text[1] = "#"
                /\ \A i \in 2 .. n : IsHexDigit(color_text[i])
        THEN IF n \in {4, 5}
             THEN [ok |-> TRUE, rgb |-> <<17 * d(2), 17 * d(3), 17 * d(4)>>]
             ELSE [ok |-> TRUE, rgb |-> <<16 * d(2) + d(3), 16 * d(4) + d(5),
                                         16 * d(6) + d(7)>>]
        ELSE fail

\* Color.from_rgb(r, g, b, ryb): the set of Colors it can return.
from_rgb(r, g, b, ryb) ==
    LET src == IF ryb THEN rgb_to_ryb(<<r, g, b>>) ELSE {<<r, g, b>>}
    IN  {Color(R(x[1]), R(x[2]), R(x[3]), ryb) :
            x \in UNION {rgb_to_hsl(t[1], t[2], t[3]) : t \in src}}

\* The rgb, ryb and hex properties.  Each calls hsl_to_rgb(*self._hsl); the
\* call returns one value however often it is made, so the properties take
\* its outcome as a parameter and reading several of them shares it.
Color_rgb(c, rgb) == IF c.ryb THEN ryb_to_rgb(rgb) ELSE {rgb}

\* The ryb property testing the flag as the rgb property does.
Color_ryb_sameflag(c, rgb) == IF c.ryb THEN rgb_to_ryb(rgb) ELSE {rgb}

Color_ryb(c, rgb) == IF ~c.ryb THEN rgb_to_ryb(rgb) ELSE {rgb}

\* The hex property, given the outcome of self.rgb.
Color_hex(rgb) == rgb_to_hex(rgb[1], rgb[2], rgb[3])

\* saturate writing its result to the lightness.
saturate_lightness(c, add, mult) ==
    LET s == RMul(mult, RAdd(c.s, add))
    IN  Color(c.h, c.s, RMin(RMax(s, R(0)), R(100)), c.ryb)

\* rotate without the modulo.
rotate_nowrap(c, theta) == Color(RAdd(c.h, theta), c.s, c.l, c.ryb)

\* rotate with a remainder that takes the sign of the dividend (C's fmod).
rotate_truncmod(c, theta) ==
    LET x == RAdd(c.h, theta)
    IN  Color(IF RLt(x, R(0)) THEN RNeg(RMod(RNeg(x), 360)) ELSE RMod(x, 360),
              c.s, c.l, c.ryb)

rotate(c, theta) == Color(RMod(RAdd(c.h, theta), 360), c.s, c.l, c.ryb)

\* lighten computing mult * lightness + add.
lighten_precedence(c, add, mult) ==
    LET l == RAdd(RMul(mult, c.l), add)
    IN  Color(c.h, c.s, RMin(RMax(l, R(0)), R(100)), c.ryb)

\* lighten clamping from below only.
lighten_noclamp(c, add, mult) ==
    LET l == RMul(mult, RAdd(c.l, add))
    IN  Color(c.h, c.s, RMax(l, R(0)), c.ryb)

lighten(c, add, mult) ==
    LET l == RMul(mult, RAdd(c.l, add))
    IN  Color(c.h, c.s, RMin(RMax(l, R(0)), R(100)), c.ryb)

saturate(c, add, mult) ==
    LET s == RMul(mult, RAdd(c.s, add))
    IN  Color(c.h, RMin(RMax(s, R(0)), R(100)), c.l, c.ryb)

complement(c) == <<rotate(c, R(180))>>
\* triad with its two rotations in the other order.
triad_swapped(c) == <<rotate(c, R(-120)), rotate(c, R(120))>>
triad(c) == <<rotate(c, R(120)), rotate(c, R(-120))>>
analagous(c) == <<rotate(c, R(30)), rotate(c, R(-30))>>
compound(c) == <<rotate(c, R(150)), rotate(c, R(-150))>>
square(c) == <<rotate(c, R(90)), rotate(c, R(180)), rotate(c, R(270))>>
rectangle(c) == <<rotate(c, R(150)), rotate(c, R(180)), rotate(c, R(330))>>
\* shades with the lighter additive shade before the darker one.
shades_swapped(c) == <<lighten(c, R(0), <<1, 2>>), lighten(c, R(20), R(1)),
                       lighten(c, R(-20), R(1)), lighten(c, R(0), <<3, 2>>)>>
\* shades doubling the lightness for its last shade.
shades_double(c) == <<lighten(c, R(0), <<1, 2>>), lighten(c, R(-20), R(1)),
                      lighten(c, R(20), R(1)), lighten(c, R(0), R(2))>>
shades(c) == <<lighten(c, R(0), <<1, 2>>), lighten(c, R(-20), R(1)),
               lighten(c, R(20), R(1)), lighten(c, R(0), <<3, 2>>)>>

---------------------------------------------------------------------------
(* Slider widget (src/palettepal/slider.py) *)

Slider(value, maximum, wrap) == [value |-> value, maximum |-> maximum, wrap |-> wrap]

Max(a, b) == IF a > b THEN a ELSE b

\* action_increment(value): the Slider afterwards.
action_increment(s, value) ==
    LET v1 == s.value + value
        v2 == IF s.wrap THEN v1 % (s.maximum + 1) ELSE v1
        v3 == Min(v2, s.maximum)
    IN  [s EXCEPT !.value = Max(0, v3)]

DecDigits == <<"0", "1", "2", "3", "4", "5", "6", "7", "8", "9">>

\* str.isdigit() of a key name.
IsDigit(c) == \E i \in 1 .. 10 : DecDigits[i] = c
DigitVal(c) == (CHOOSE i \in 1 .. 10 : DecDigits[i] = c) - 1

\* str(n) of an integer.
RECURSIVE DecStr(_)
DecStr(n) == IF n < 0 THEN <<"-">> \o DecStr(-n)
             ELSE IF n < 10 THEN <<DecDigits[n + 1]>>
             ELSE DecStr(n \div 10) \o <<DecDigits[(n % 10) + 1]>>

\* The Python slice s[-3:].
LastThree(s) == SubSeq(s, Max(1, Len(s) - 2), Len(s))

\* int(s) of an optional '-' and digits.
RECURSIVE IntOfDigits(_)
IntOfDigits(s) == IF Len(s) = 0 THEN 0
                  ELSE 10 * IntOfDigits(SubSeq(s, 1, Len(s) - 1)) + DigitVal(s[Len(s)])
IntOfDec(s) == IF s[1] = "-" THEN -IntOfDigits(Tail(s)) ELSE IntOfDigits(s)

\* on_key(event): the Slider afterwards; keys other than digits do nothing.
on_key(s, key) ==
    IF IsDigit(key)
    THEN [s EXCEPT !.value = IntOfDec(LastThree(DecStr(s.value) \o <<key>>))]
    ELSE s

---------------------------------------------------------------------------
(* ColorPicker, ColorSwatch, ColorNumbers and PalettePal                   *)
(* (src/palettepal/colorapp.py).  What a widget draws (slider gradients,   *)
(* swatch labels and backgrounds, the texts of the Inputs) is left out;    *)
(* the colors, values, selections and messages are kept.                   *)

\* int(x): truncation toward zero.
TruncInt(x) == IF x[1] >= 0 THEN x[1] \div x[2] ELSE -((-x[1]) \div x[2])

\* A message: its class, and the attributes its __init__ reads from the sender.
Message(type, color, name, index, value) ==
    [type |-> type, color |-> color, name |-> name, slider |-> index, value |-> value]

\* Color.rgb with its own hsl_to_rgb call: the RGB triples it can return.
RgbOf(c) == UNION {Color_rgb(c, base) : base \in hsl_to_rgb(c.h, c.s, c.l)}

\* rgb_to_hsl(r, g, b) raises ZeroDivisionError: colorsys divides the range
\* by maxc + minc when l <= 0.5 and by 2 - maxc - minc otherwise.  The
\* divisor is computed in floats: with minc = 0 and maxc = 510/255 it is
\* exactly zero; with maxc + minc = 510 and minc # 0 it can be a rounding
\* residue, so the sliders are driven (PickerKeys) to stay off those values.
rgb_to_hsl_raises(r, g, b) ==
    LET maxc == Max(r, Max(g, b))
        minc == Min(r, Min(g, b))
    IN  /\ maxc # minc
        /\ IF maxc + minc <= 255 THEN maxc + minc = 0 ELSE maxc + minc = 510

\* ColorPicker.color (getter) raises: from_rgb in 'rgb' mode.
picker_color_raises(p) ==
    p.mode = "rgb" /\ rgb_to_hsl_raises(p.value[1], p.value[2], p.value[3])

\* ColorPicker.color (getter): the Colors it can return, none when it
\* raises.
picker_color(p) ==
    IF p.mode = "rgb"
    THEN IF picker_color_raises(p) THEN {}
         ELSE from_rgb(p.value[1], p.value[2], p.value[3], FALSE)
    ELSE {Color(R(p.value[1]), R(p.value[2]), R(p.value[3]), p.ryb)}

\* ColorPicker.color (setter), up to its call of updatecolor: the pickers
\* it can leave.
picker_set_color(p, color) ==
    IF p.mode = "rgb"
    THEN {[p EXCEPT !.value = rgb] : rgb \in RgbOf(color)}
    ELSE {[p EXCEPT !.value = <<TruncInt(color.h), TruncInt(color.s),
                                TruncInt(color.l)>>]}

\* ColorPicker.updatecolor(message) raises: in 'rgb' mode the three
\* gradient colors and the color of the message come from from_rgb.
updatecolor_raises(p) ==
    /\ p.mode = "rgb"
    /\ \/ rgb_to_hsl_raises(0, p.value[2], p.value[3])
       \/ rgb_to_hsl_raises(p.value[1], 0, p.value[3])
       \/ rgb_to_hsl_raises(p.value[1], p.value[2], 0)
       \/ rgb_to_hsl_raises(p.value[1], p.value[2], p.value[3])

\* What self.color.rgb can return for channel i in 'rgb' mode with the
\* sliders at v.
rgb_channel(v, i) ==
    {rgb[i] : rgb \in UNION {RgbOf(c) : c \in from_rgb(v[1], v[2], v[3], FALSE)}}

\* One assignment of changemode('rgb'), vNslider.value = self.color.rgb[i],
\* after outcome o of the assignments before it.
assign_channel(o, i) ==
    IF o.raised THEN {o}
    ELSE IF rgb_to_hsl_raises(o.v[1], o.v[2], o.v[3])
    THEN {[v |-> o.v, raised |-> TRUE]}
    ELSE {[v |-> [o.v EXCEPT ![i] = x], raised |-> FALSE] : x \in rgb_channel(o.v, i)}

\* The assignments of changemode('rgb') from the i-th on, after the
\* outcomes os of those before.
RECURSIVE assign_channels(_, _)
assign_channels(os, i) ==
    IF i > 3 THEN os
    ELSE assign_channels(UNION {assign_channel(o, i) : o \in os}, i + 1)

\* ColorPicker.changemode(mode): the pickers it can leave, and whether an
\* exception ended it.  The mode is set first, so each self.color is read
\* in the new mode from the slider values as they stand, the sliders
\* assigned before included; the gradients read it once more.
changemode(p, mode) ==
    IF mode = "rgb"
    THEN {[picker |-> [mode |-> mode, ryb |-> p.ryb, value |-> o.v,
                       maximum |-> <<255, 255, 255>>],
           raised |-> o.raised \/ rgb_to_hsl_raises(o.v[1], o.v[2], o.v[3])] :
            o \in assign_channels({[v |-> p.value, raised |-> FALSE]}, 1)}
    ELSE {[picker |-> [mode |-> mode, ryb |-> p.ryb, value |-> p.value,
                       maximum |-> <<360, 100, 100>>],
           raised |-> FALSE]}

\* The harmony method fill_palette picks for a palette name.
HarmonyOf(name, basecolor) ==
    CASE name = "Monochrome" -> shades(basecolor)
      [] name = "Triadic" -> triad(basecolor)
      [] name = "Complementary" -> complement(basecolor)
      [] name = "Square" -> square(basecolor)
      [] name = "Rectangle" -> rectangle(basecolor)
      [] name = "Compound" -> compound(basecolor)
      [] name = "Analagous" -> analagous(basecolor)
      [] OTHER -> triad(basecolor)

\* fill_palette filling from swatch #1 on.
fill_palette_from1(sw, name) ==
    LET colors == HarmonyOf(name, sw[1].color)
    IN  [k \in 1 .. 5 |->
            [color |-> IF k <= Len(colors) THEN colors[k] ELSE sw[k].color,
             selected |-> sw[k].selected,
             display |-> k - 1 < Len(colors) + 1]]

\* PalettePal.fill_palette(name): the swatches afterwards.
fill_palette(sw, name) ==
    LET colors == HarmonyOf(name, sw[1].color)
    IN  [k \in 1 .. 5 |->
            [color |-> IF k >= 2 /\ k - 1 <= Len(colors) THEN colors[k - 1]
                       ELSE sw[k].color,
             selected |-> sw[k].selected,
             display |-> k - 1 < Len(colors) + 1]]

\* set_color refilling the palette before it sets swatch #1.
set_color_fillfirst(sw, name, color) ==
    IF name = ""
    THEN [k \in 1 .. 5 |-> [sw[k] EXCEPT !.color = color]]
    ELSE IF name = "custom"
    THEN [k \in 1 .. 5 |-> IF sw[k].selected THEN [sw[k] EXCEPT !.color = color]
                                              ELSE sw[k]]
    ELSE [fill_palette(sw, name) EXCEPT ![1].color = color]

\* PalettePal.set_color(color) with the palette Select at name: the
\* swatches afterwards.
set_color(sw, name, color) ==
    IF name = ""
    THEN [k \in 1 .. 5 |-> [sw[k] EXCEPT !.color = color]]
    ELSE IF name = "custom"
    THEN [k \in 1 .. 5 |-> IF sw[k].selected THEN [sw[k] EXCEPT !.color = color]
                                              ELSE sw[k]]
    ELSE fill_palette([sw EXCEPT ![1].color = color], name)

\* PalettePal.selected_swatch(): the number of the swatch it returns.
selected_swatch(sw) ==
    IF \E k \in 1 .. 5 : sw[k].selected
    THEN CHOOSE k \in 1 .. 5 : sw[k].selected /\ \A j \in 1 .. k - 1 : ~sw[j].selected
    ELSE 1

\* ColorSwatch.select(False) on all five swatches.
deselect_all(sw) == [k \in 1 .. 5 |-> [sw[k] EXCEPT !.selected = FALSE]]

\* str.strip(chars).
RECURSIVE LStrip(_, _)
LStrip(s, chars) == IF Len(s) > 0 /\ s[1] \in chars THEN LStrip(Tail(s), chars) ELSE s
RECURSIVE RStrip(_, _)
RStrip(s, chars) == IF Len(s) > 0 /\ s[Len(s)] \in chars
                    THEN RStrip(SubSeq(s, 1, Len(s) - 1), chars) ELSE s
Strip(s, chars) == RStrip(LStrip(s, chars), chars)

\* str.split(','): the pieces, in order.
RECURSIVE Split(_)
Split(s) ==
    IF \E i \in 1 .. Len(s) : s[i] = ","
    THEN LET i == CHOOSE i \in 1 .. Len(s) :
                    s[i] = "," /\ \A j \in 1 .. i - 1 : s[j] # ","
         IN  <<SubSeq(s, 1, i - 1)>> \o Split(SubSeq(s, i + 1, Len(s)))
    ELSE <<s>>

\* int(s) of a string: [ok, val], ok = FALSE for its ValueError.  Blanks
\* around the number and one sign are accepted.
PyInt(s) ==
    LET t == Strip(s, {" "})
        body == IF Len(t) > 0 /\ t[1] \in {"+", "-"} THEN Tail(t) ELSE t
    IN  IF Len(body) > 0 /\ \A i \in 1 .. Len(body) : IsDigit(body[i])
        THEN [ok |-> TRUE,
              val |-> IF t[1] = "-" THEN -IntOfDigits(body) ELSE IntOfDigits(body)]
        ELSE [ok |-> FALSE, val |-> 0]

---------------------------------------------------------------------------
(* Bounds and the inputs drawn *)

NearEdge == 2       \* channel values within NearEdge of 0 and of 255
MaxTurns == 2       \* rotations by up to MaxTurns full turns either way
MaxHashes == 2      \* leading '#' characters of a hex input
MaxBodyLen == 7     \* characters of a hex input after the '#'s

Channels == (0 .. NearEdge) \cup ((255 - NearEdge) .. 255)
            \cup {53, 121, 127, 128, 171, 197, 228, 230}

RGBs == Channels \X Channels \X Channels
Grays == {<<v, v, v>> : v \in 0 .. 255}

HueSamples == {0, 1, 60, 90, 120, 180, 240, 270, 300, 359}
SatSamples == {0, 8, 20, 50, 100}
LightSamples == {0, 20, 25, 50, 75, 100}
HSLs == (HueSamples \X SatSamples \X LightSamples)
        \cup {<<h, 0, l>> : h \in HueSamples, l \in 0 .. 100}

BodyChars == {"F", "g", "-"}

RECURSIVE Bodies(_)
Bodies(n) == IF n = 0 THEN {<<>>}
             ELSE LET shorter == Bodies(n - 1)
                  IN  shorter \cup {Append(b, c) : b \in {x \in shorter : Len(x) = n - 1},
                                                   c \in BodyChars}

RECURSIVE Hashes(_)
Hashes(n) == IF n = 0 THEN <<>> ELSE <<"#">> \o Hashes(n - 1)

HexInputs == {Hashes(k) \o b : k \in 0 .. MaxHashes, b \in Bodies(MaxBodyLen)}

Hues == {R(-30), R(0), <<45, 2>>, R(90), R(180), R(359), R(360), R(725)}
Sats == {R(-10), R(0), R(50), R(100), R(150)}
Lights == {R(-10), R(0), <<25, 2>>, R(50), R(100), R(120)}
Colors == {Color(h, s, l, ryb) : h \in Hues, s \in Sats, l \in Lights,
                                 ryb \in BOOLEAN}

Thetas == {R(360 * k) : k \in (-MaxTurns) .. MaxTurns}
          \cup {R(-150), R(-120), R(-30), R(30), R(90), R(180), R(270), R(330)}
          \cup {<<1, 2>>, <<-725, 2>>}
Adds == {R(-1000), R(-20), R(0), <<5, 2>>, R(20), R(1000)}
Mults == {R(-1), R(0), <<1, 2>>, R(1), <<3, 2>>}

\* Strings given to from_name: names of the table, words that are not
\* in it, and other texts.
NameInputs ==
    DOMAIN COLOR_NAME_TO_RGB
    \cup {<<>>, <<"r", "e">>, <<"r", "e", "d", "d">>, <<"r", "o", "u", "g", "e">>,
          <<"#">>, <<"#", "f", "0", "0">>, <<"#", "f", "g", "0">>,
          <<"#", "0", "0", "f", "8">>, <<"#", "f", "f", "0", "0", "0", "0">>,
          <<"#", "f", "f", "0", "0", "0">>, <<"f", "f", "0", "0", "0", "0">>,
          <<"#", "8", "0", "8", "0", "8", "0", "f", "f">>}

NoTriple == <<>>
NoColor == Color(R(0), R(0), R(0), FALSE)
NoArgs == [theta |-> R(0), add |-> R(0), mult |-> R(1)]
NoView == [rgb |-> NoTriple, ryb |-> NoTriple, hex |-> <<>>]
NoCvt == [table |-> "", val |-> NoTriple]

\* Sliders as the application makes them, and the keys pressed on one.
Maxima == {100, 255, 360}
Increments == {-10, -1, 1, 10}
Keys == {DecDigits[i] : i \in 1 .. 10} \cup {"a"}

\* The widgets once the application is mounted: Slider() with its default
\* arguments; the palette Select blank; PalettePal.on_mount has set every
\* swatch to Color(250, 100, 50); the picker's sliders stand at
\* (250, 100, 50) in 'hsl' mode; ColorNumbers.on_mount has set its color.
MountColor == Color(R(250), R(100), R(50), FALSE)
MountSwatch == [color |-> MountColor, selected |-> FALSE, display |-> TRUE]
AppMounted ==
    /\ palette_name = ""
    /\ swatches = [k \in 1 .. 5 |-> MountSwatch]
    /\ picker = [mode |-> "hsl", ryb |-> FALSE, value |-> <<250, 100, 50>>,
                 maximum |-> <<360, 100, 100>>]
    /\ numbers = [color |-> Color(R(255), R(100), R(50), FALSE),
                  normalized |-> FALSE, disabled |-> FALSE]
    /\ queue = <<>> /\ events = 0 /\ set_arg = MountColor
Mounted == slider = Slider(100, 100, TRUE) /\ AppMounted

\* The conversion layer with nothing drawn or applied.
Idle ==
    /\ rgb0 = NoTriple /\ hsl = NoTriple /\ rgb1 = NoTriple /\ str = <<>>
    /\ err = FALSE /\ self = NoColor /\ args = NoArgs /\ out = <<>>
    /\ ryb1 = NoTriple /\ view = NoView /\ cvt = NoCvt

---------------------------------------------------------------------------
(* The state machine: an input is drawn, then operations are applied *)

Init ==
    /\ rgb1 = NoTriple /\ err = FALSE
    /\ args = NoArgs /\ out = <<>>
    /\ ryb1 = NoTriple /\ view = NoView /\ cvt = NoCvt
    /\ Mounted
    /\ \/ pc = "in_rgb" /\ rgb0 \in RGBs \cup Grays /\ hsl = NoTriple
          /\ str = <<>> /\ self = NoColor
       \/ pc = "in_hsl" /\ rgb0 = NoTriple /\ hsl \in HSLs
          /\ str = <<>> /\ self = NoColor
       \/ pc = "in_hex" /\ rgb0 = NoTriple /\ hsl = NoTriple
          /\ str \in HexInputs /\ self = NoColor
       \/ pc = "in_name" /\ rgb0 = NoTriple /\ hsl = NoTriple
          /\ str \in NameInputs /\ self = NoColor
       \/ pc = "in_color" /\ rgb0 = NoTriple /\ hsl = NoTriple
          /\ str = <<>> /\ self \in Colors

RgbToHsl ==
    /\ pc = "in_rgb"
    /\ \E o \in rgb_to_hsl(rgb0[1], rgb0[2], rgb0[3]) : hsl' = o
    /\ pc' = "rgb_to_hsl"
    /\ UNCHANGED <<rgb0, rgb1, str, err, self, args, out, ryb1, view, cvt, uivars>>

\* hsl_to_rgb on what rgb_to_hsl returned, or on the triple drawn.
HslToRgb ==
    /\ pc \in {"rgb_to_hsl", "in_hsl"}
    /\ \E o \in hsl_to_rgb(R(hsl[1]), R(hsl[2]), R(hsl[3])) : rgb1' = o
    /\ pc' = IF pc = "rgb_to_hsl" THEN "hsl_to_rgb" ELSE "hsl_to_rgb_direct"
    /\ UNCHANGED <<rgb0, hsl, str, err, self, args, out, ryb1, view, cvt, uivars>>

RgbToHex ==
    /\ pc = "in_rgb"
    /\ str' = rgb_to_hex(rgb0[1], rgb0[2], rgb0[3])
    /\ pc' = "rgb_to_hex"
    /\ UNCHANGED <<rgb0, hsl, rgb1, err, self, args, out, ryb1, view, cvt, uivars>>

HexToRgb ==
    /\ pc \in {"in_hex", "rgb_to_hex"}
    /\ LET p == hex_to_rgb(str)
       IN  err' = ~p.ok /\ rgb1' = p.rgb
    /\ pc' = IF pc = "in_hex" THEN "hex_to_rgb" ELSE "hex_round_trip"
    /\ UNCHANGED <<rgb0, hsl, str, self, args, out, ryb1, view, cvt, uivars>>

FromRgb ==
    /\ pc = "in_rgb"
    /\ \E ryb \in BOOLEAN :
         \E c \in from_rgb(rgb0[1], rgb0[2], rgb0[3], ryb) : self' = c
    /\ pc' = "from_rgb"
    /\ UNCHANGED <<rgb0, hsl, rgb1, str, err, args, out, ryb1, view, cvt, uivars>>

\* rgb_to_ryb on the triple drawn.
RgbToRyb ==
    /\ pc = "in_rgb"
    /\ \E o \in rgb_to_ryb(rgb0) : ryb1' = o
    /\ pc' = "rgb_to_ryb"
    /\ UNCHANGED <<rgb0, hsl, rgb1, str, err, self, args, out, view, cvt, uivars>>

\* ryb_to_rgb on the triple drawn, read as RYB, or on what rgb_to_ryb returned.
RybToRgb ==
    /\ pc \in {"in_rgb", "rgb_to_ryb"}
    /\ \E o \in ryb_to_rgb(IF pc = "in_rgb" THEN rgb0 ELSE ryb1) : rgb1' = o
    /\ pc' = IF pc = "in_rgb" THEN "ryb_to_rgb" ELSE "ryb_round_trip"
    /\ UNCHANGED <<rgb0, hsl, str, err, self, args, out, ryb1, view, cvt, uivars>>

\* Color.from_name on the string drawn; on ColorParseError no Color is made.
FromName ==
    /\ pc = "in_name"
    /\ LET tcolor == parse(str)
       IN  IF tcolor.ok
           THEN /\ err' = FALSE
                /\ \E c \in from_rgb(tcolor.rgb[1], tcolor.rgb[2], tcolor.rgb[3], FALSE) :
                      self' = c
           ELSE err' = TRUE /\ self' = self
    /\ pc' = "from_name"
    /\ UNCHANGED <<rgb0, hsl, rgb1, str, args, out, ryb1, view, cvt, uivars>>

\* Color(h, s, l, ryb) on the HSL triple drawn.
NewColor ==
    /\ pc = "in_hsl"
    /\ \E ryb \in BOOLEAN : self' = Color(R(hsl[1]), R(hsl[2]), R(hsl[3]), ryb)
    /\ pc' = "new"
    /\ UNCHANGED <<rgb0, hsl, rgb1, str, err, args, out, ryb1, view, cvt, uivars>>

\* The rgb, ryb and hex properties of a Color are read.
Views ==
    /\ pc \in {"in_color", "new", "from_rgb"}
    /\ \E base \in hsl_to_rgb(self.h, self.s, self.l) :
         \E r \in Color_rgb(self, base), y \in Color_ryb(self, base) :
            view' = [rgb |-> r, ryb |-> y, hex |-> Color_hex(r)]
    /\ pc' = "views"
    /\ UNCHANGED <<rgb0, hsl, rgb1, str, err, self, args, out, ryb1, cvt, uivars>>

\* The rgb property of a Color like the receiver, k full turns further.
\* With s = 0 colorsys never reads the hue, so hsl_to_rgb returns what it
\* returned for the receiver; and ryb_to_rgb returns for the same triple
\* what it returned before.
RgbTurned ==
    /\ pc = "views"
    /\ \E k \in ((-MaxTurns) .. MaxTurns) \ {0} :
         /\ args' = [args EXCEPT !.theta = R(360 * k)]
         /\ LET c == Color(RAdd(self.h, R(360 * k)), self.s, self.l, self.ryb)
                seen == IF self.ryb THEN view.ryb ELSE view.rgb
            IN  \E base \in (IF c.s = R(0) THEN {seen}
                             ELSE hsl_to_rgb(c.h, c.s, c.l)) :
                   \E r \in (IF base = seen THEN {view.rgb}
                             ELSE Color_rgb(c, base)) : rgb1' = r
    /\ pc' = "rgb_turned"
    /\ UNCHANGED <<rgb0, hsl, str, err, self, out, ryb1, view, cvt, uivars>>

\* convert on the triple drawn, with either table.
Convert ==
    /\ pc = "in_rgb"
    /\ \E name \in {"IRISSON_RYB_TO_RGB", "RGB_TO_RYB"} :
         LET table == IF name = "RGB_TO_RYB" THEN RGB_TO_RYB ELSE IRISSON_RYB_TO_RGB
         IN  cvt' = [table |-> name,
                     val |-> convert(rgb0[1], rgb0[2], rgb0[3], table)]
    /\ pc' = "convert"
    /\ UNCHANGED <<rgb0, hsl, rgb1, str, err, self, args, out, ryb1, view, uivars>>

Rotate ==
    /\ pc = "in_color"
    /\ \E theta \in Thetas :
         /\ args' = [args EXCEPT !.theta = theta]
         /\ out' = <<rotate(self, theta)>>
    /\ pc' = "rotate"
    /\ UNCHANGED <<rgb0, hsl, rgb1, str, err, self, ryb1, view, cvt, uivars>>

RotateBack ==
    /\ pc = "rotate"
    /\ out' = <<rotate(out[1], RNeg(args.theta))>>
    /\ pc' = "rotate_back"
    /\ UNCHANGED <<rgb0, hsl, rgb1, str, err, self, args, ryb1, view, cvt, uivars>>

Lighten ==
    /\ pc = "in_color"
    /\ \E add \in Adds, mult \in Mults :
         /\ args' = [args EXCEPT !.add = add, !.mult = mult]
         /\ out' = <<lighten(self, add, mult)>>
    /\ pc' = "lighten"
    /\ UNCHANGED <<rgb0, hsl, rgb1, str, err, self, ryb1, view, cvt, uivars>>

Saturate ==
    /\ pc = "in_color"
    /\ \E add \in Adds, mult \in Mults :
         /\ args' = [args EXCEPT !.add = add, !.mult = mult]
         /\ out' = <<saturate(self, add, mult)>>
    /\ pc' = "saturate"
    /\ UNCHANGED <<rgb0, hsl, rgb1, str, err, self, ryb1, view, cvt, uivars>>

Harmony(name, colors) ==
    /\ pc = "in_color"
    /\ out' = colors
    /\ pc' = name
    /\ UNCHANGED <<rgb0, hsl, rgb1, str, err, self, args, ryb1, view, cvt, uivars>>

Complement == Harmony("complement", complement(self))
Triad == Harmony("triad", triad(self))
Analagous == Harmony("analagous", analagous(self))
Compound == Harmony("compound", compound(self))
Square == Harmony("square", square(self))
Rectangle == Harmony("rectangle", rectangle(self))
Shades == Harmony("shades", shades(self))

Next ==
    \/ RgbToHsl \/ HslToRgb \/ RgbToHex \/ HexToRgb \/ FromRgb
    \/ RgbToRyb \/ RybToRgb \/ Convert
    \/ FromName \/ NewColor \/ Views \/ RgbTurned
    \/ Rotate \/ RotateBack \/ Lighten \/ Saturate
    \/ Complement \/ Triad \/ Analagous \/ Compound \/ Square \/ Rectangle
    \/ Shades

Spec == Init /\ [][Next]_vars

---------------------------------------------------------------------------
(* A Slider on its own: made with a value within its range, then keys *)

InitSlider ==
    /\ pc = "Slider" /\ Idle /\ AppMounted
    /\ slider \in {Slider(v, m, w) : v \in 0 .. 360, m \in Maxima, w \in BOOLEAN}
    /\ slider.value <= slider.maximum

othervars == <<rgb0, hsl, rgb1, str, err, self, args, out, ryb1, view, cvt,
               palette_name, swatches, picker, numbers, queue, events, set_arg>>

SliderIncrement ==
    /\ \E value \in Increments : slider' = action_increment(slider, value)
    /\ pc' = "action_increment"
    /\ UNCHANGED othervars

SliderKey ==
    /\ \E key \in Keys : slider' = on_key(slider, key)
    /\ pc' = "on_key"
    /\ UNCHANGED othervars

NextSlider == SliderIncrement \/ SliderKey

SpecSlider == InitSlider /\ [][NextSlider]_vars

---------------------------------------------------------------------------
(* The application: PalettePal with its ColorPicker, five ColorSwatches   *)
(* and ColorNumbers.  A user event is taken when the message queue is     *)
(* empty and no exception has escaped; a handler takes the message at the *)
(* head of the queue.  pc names the handler that ran last, str the text   *)
(* submitted last, err an exception that escaped its handler, set_arg the *)
(* color of the last set_color call.                                      *)

MaxEvents == 3      \* user events in one run

\* The values of the palette Select; "" is the blank choice.
Harmonies == {"Complementary", "Analagous", "Triadic", "Compound", "Square",
              "Rectangle", "Monochrome"}
PaletteNames == {"", "custom"} \cup Harmonies

\* The values random.randint is sampled at.
RandomHSLs == {<<0, 20, 20>>, <<137, 55, 42>>, <<360, 100, 80>>}

\* The digit keys pressed on a slider of the picker.
PickerKeys == {"3", "4"}

\* The texts submitted in the Inputs of ColorNumbers.
HexSubmits == {<<"#", "f", "f", "0", "0", "0", "0">>,
               <<"0", "0", "0", "0", "f", "f">>,
               <<"#", "1", "2", "3", "4", "5">>,
               <<"g", "g", "g", "g", "g", "g">>,
               <<"F", "F", "F", "F", "F", "F", "F">>}
HslSubmits == {<<"(", "0", ",", " ", "5", "0", ",", " ", "2", "5", ")">>,
               <<"(", "1", ",", " ", "0", ",", " ", "1", ")">>,
               <<"2", ",", "5">>,
               <<"(", "a", ",", " ", "b", ",", " ", "c", ")">>}
RgbSubmits == {<<"(", "2", "5", "5", ",", " ", "0", ",", " ", "0", ")">>,
               <<"(", "0", ".", "5", ",", " ", "0", ".", "5", ",", " ", "0", ".", "5", ")">>,
               <<"1", "2">>,
               <<"(", "x", ",", " ", "0", ",", " ", "0", ")">>}
NameSubmits == {<<"r", "e", "d">>,
                <<"g", "r", "a", "y">>,
                <<"r", "o", "u", "g", "e">>}

InitApp == pc = "on_mount" /\ Idle /\ Mounted

enginevars == <<rgb0, hsl, rgb1, self, args, out, ryb1, view, cvt, slider>>

\* A user event can be taken, of at most max in one run.
Ready(max) == queue = <<>> /\ ~err /\ events < max

\* The value of the mode Select.
entry_mode_value == IF picker.mode = "rgb" THEN "rgb"
                    ELSE IF picker.ryb THEN "ryb" ELSE "hsl"

ColorChangedBy(p) ==
    {Message("ColorPicker.ColorChanged", c, "", 0, 0) : c \in picker_color(p)}

\* The call of updatecolor that ends the color setter of picker p: the
\* ColorChanged it posts, or the exception that escapes.
Updated(p) ==
    IF updatecolor_raises(p)
    THEN err' = TRUE /\ UNCHANGED queue
    ELSE err' = FALSE /\ \E m \in ColorChangedBy(p) : queue' = <<m>>

\* F1..F5: PalettePal.action_select_swatch(num).
action_select_swatch(max) ==
    /\ Ready(max)
    /\ \E num \in 1 .. 5 :
         LET sw == [deselect_all(swatches) EXCEPT ![num].selected = TRUE]
         IN  /\ swatches' = sw
             /\ numbers' = [numbers EXCEPT !.color = sw[num].color]
             /\ IF palette_name = "custom"
                THEN \E p \in picker_set_color(picker, sw[num].color) :
                        picker' = p /\ Updated(p)
                ELSE UNCHANGED <<picker, queue, err>>
    /\ pc' = "action_select_swatch" /\ events' = events + 1
    /\ UNCHANGED <<str, palette_name, set_arg, enginevars>>

\* The palette Select changes: ColorNumbers.palettechange posts
\* PaletteChanged, which carries the Select's value.
palettechange(max) ==
    /\ Ready(max)
    /\ \E name \in PaletteNames \ {palette_name} :
         /\ palette_name' = name
         /\ queue' = <<Message("ColorNumbers.PaletteChanged", NoColor, name, 0, 0)>>
    /\ pc' = "palettechange" /\ events' = events + 1
    /\ UNCHANGED <<str, err, swatches, picker, numbers, set_arg, enginevars>>

\* PalettePal.set_palette(message).
SetPalette ==
    /\ queue # <<>> /\ ~err /\ Head(queue).type = "ColorNumbers.PaletteChanged"
    /\ LET name == Head(queue).name
       IN  IF name = ""
           THEN LET sw == deselect_all(swatches)
                IN  /\ swatches' = set_color(sw, palette_name, sw[1].color)
                    /\ set_arg' = sw[1].color
           ELSE IF name = "custom"
           THEN /\ swatches' = [k \in 1 .. 5 |->
                                  [color |-> swatches[k].color,
                                   selected |-> (k = 1) \/ swatches[k].selected,
                                   display |-> TRUE]]
                /\ UNCHANGED set_arg
           ELSE /\ swatches' = [fill_palette(swatches, name) EXCEPT ![1].selected = TRUE]
                /\ UNCHANGED set_arg
    /\ queue' = Tail(queue)
    /\ pc' = "set_palette"
    /\ UNCHANGED <<str, err, palette_name, picker, numbers, events, enginevars>>

\* PalettePal.action_randomize: the picker's color is set, which posts
\* ColorChanged.
action_randomize(max) ==
    /\ Ready(max)
    /\ \E v \in RandomHSLs :
         \E p \in picker_set_color(picker, Color(R(v[1]), R(v[2]), R(v[3]), picker.ryb)) :
            picker' = p /\ Updated(p)
    /\ pc' = "action_randomize" /\ events' = events + 1
    /\ UNCHANGED <<str, palette_name, swatches, numbers, set_arg, enginevars>>

\* An arrow key on a slider of the picker: Slider.action_increment.
PickerIncrement ==
    /\ Ready(MaxEvents)
    /\ \E i \in 1 .. 3, value \in Increments :
         LET s == action_increment(Slider(picker.value[i], picker.maximum[i], TRUE), value)
         IN  /\ picker' = [picker EXCEPT !.value[i] = s.value]
             /\ queue' = <<Message("Slider.ValueChanged", NoColor, "", i, s.value)>>
    /\ pc' = "Slider.action_increment" /\ events' = events + 1
    /\ UNCHANGED <<str, err, palette_name, swatches, numbers, set_arg, enginevars>>

\* A digit key on a slider of the picker: Slider.on_key.
PickerKey ==
    /\ Ready(MaxEvents)
    /\ \E i \in 1 .. 3, key \in PickerKeys :
         LET s == on_key(Slider(picker.value[i], picker.maximum[i], TRUE), key)
         IN  /\ picker' = [picker EXCEPT !.value[i] = s.value]
             /\ queue' = <<Message("Slider.ValueChanged", NoColor, "", i, s.value)>>
    /\ pc' = "Slider.on_key" /\ events' = events + 1
    /\ UNCHANGED <<str, err, palette_name, swatches, numbers, set_arg, enginevars>>

\* ColorPicker.updatecolor(message).
UpdateColor ==
    /\ queue # <<>> /\ ~err /\ Head(queue).type = "Slider.ValueChanged"
    /\ IF updatecolor_raises(picker)
       THEN err' = TRUE /\ queue' = Tail(queue)
       ELSE /\ err' = FALSE
            /\ \E m \in ColorChangedBy(picker) : queue' = Append(Tail(queue), m)
    /\ pc' = "updatecolor"
    /\ UNCHANGED <<str, palette_name, swatches, picker, numbers, events,
                   set_arg, enginevars>>

\* PalettePal.colorchanged(message).
ColorChanged ==
    /\ queue # <<>> /\ ~err /\ Head(queue).type = "ColorPicker.ColorChanged"
    /\ LET sw == set_color(swatches, palette_name, Head(queue).color)
       IN  /\ swatches' = sw
           /\ numbers' = [numbers EXCEPT !.color = sw[selected_swatch(sw)].color]
    /\ set_arg' = Head(queue).color
    /\ queue' = Tail(queue)
    /\ pc' = "colorchanged"
    /\ UNCHANGED <<str, err, palette_name, picker, events, enginevars>>

\* PalettePal.colornum_changed(message); the ColorChanged of the picker is
\* prevented.
ColornumChanged ==
    /\ queue # <<>> /\ ~err /\ Head(queue).type = "ColorNumbers.ColorChanged"
    /\ \E p \in picker_set_color(picker, Head(queue).color) :
         /\ picker' = p
         /\ IF updatecolor_raises(p)
            THEN err' = TRUE /\ UNCHANGED <<swatches, set_arg>>
            ELSE /\ err' = FALSE
                 /\ swatches' = set_color(swatches, palette_name, Head(queue).color)
                 /\ set_arg' = Head(queue).color
    /\ queue' = Tail(queue)
    /\ pc' = "colornum_changed"
    /\ UNCHANGED <<str, palette_name, numbers, events, enginevars>>

\* What a handler of ColorNumbers comes to: an exception that escapes it,
\* one its suppress() swallows, or a color that it sets and posts.
Raised == [kind |-> "raised", color |-> NoColor]
Suppressed == [kind |-> "suppressed", color |-> NoColor]
Sets(color) == [kind |-> "sets", color |-> color]

\* ColorNumbers.sethex(event): hex_to_rgb raises ValueError, and only
\* ColorParseError is suppressed.
sethex(value) ==
    LET p == hex_to_rgb(value)
    IN  IF p.ok
        THEN {Sets(c) : c \in from_rgb(p.rgb[1], p.rgb[2], p.rgb[3], FALSE)}
        ELSE {Raised}

\* ColorNumbers.sethsl(event).  With normalization off, h, s and l are read
\* before they are assigned: UnboundLocalError, which is no ValueError.
\* With it on, all three components are taken from hsl[0].
sethsl(normalized, value) ==
    LET t == Split(Strip(value, {"(", ")", " "}))
    IN  IF normalized
        THEN IF PyInt(t[1]).ok
             THEN {Sets(Color(R(PyInt(t[1]).val * 360), R(PyInt(t[1]).val * 100),
                              R(PyInt(t[1]).val * 100), FALSE))}
             ELSE {Suppressed}
        ELSE {Raised}

\* 10 ** n.
RECURSIVE Pow10(_)
Pow10(n) == IF n = 0 THEN 1 ELSE 10 * Pow10(n - 1)

\* float(s) of a string of digits with an optional sign and fraction:
\* [ok, val], ok = FALSE for its ValueError.
PyFloat(s) ==
    LET t == Strip(s, {" "})
        body == IF Len(t) > 0 /\ t[1] \in {"+", "-"} THEN Tail(t) ELSE t
        dot == IF \E i \in 1 .. Len(body) : body[i] = "."
               THEN CHOOSE i \in 1 .. Len(body) : body[i] = "." /\
                        \A j \in 1 .. i - 1 : body[j] # "."
               ELSE Len(body) + 1
        whole == SubSeq(body, 1, dot - 1)
        frac == SubSeq(body, dot + 1, Len(body))
        mag == Rat(IntOfDigits(whole \o frac), Pow10(Len(frac)))
    IN  IF /\ Len(whole) + Len(frac) > 0
           /\ \A i \in 1 .. Len(whole) : IsDigit(whole[i])
           /\ \A i \in 1 .. Len(frac) : IsDigit(frac[i])
        THEN [ok |-> TRUE, val |-> IF t[1] = "-" THEN RMul(R(-1), mag) ELSE mag]
        ELSE [ok |-> FALSE, val |-> R(0)]

\* ColorNumbers.setrgb(event): rgb[0], rgb[1], rgb[2] are converted in
\* turn; a missing one is an IndexError, which is no ValueError.
setrgb(normalized, value) ==
    LET t == Split(Strip(value, {"(", ")", " "}))
        bad == {i \in 1 .. 3 : i > Len(t) \/ ~PyFloat(t[i]).ok}
        first == CHOOSE i \in bad : \A j \in bad : i <= j
        k == IF normalized THEN R(255) ELSE R(1)
        v(i) == TruncInt(RMul(PyFloat(t[i]).val, k))
    IN  IF bad # {}
        THEN IF first > Len(t) THEN {Raised} ELSE {Suppressed}
        ELSE {Sets(c) : c \in from_rgb(v(1), v(2), v(3), FALSE)}

\* ColorNumbers.setname(event): textual raises ColorParseError.
setname(value) ==
    LET tcolor == parse(value)
    IN  IF tcolor.ok
        THEN {Sets(c) : c \in from_rgb(tcolor.rgb[1], tcolor.rgb[2], tcolor.rgb[3], FALSE)}
        ELSE {Suppressed}

\* An Input of ColorNumbers is submitted and its handler comes to outcome.
Submitted(handler, value, outcome) ==
    /\ pc' = handler /\ str' = value /\ events' = events + 1
    /\ err' = (outcome.kind = "raised")
    /\ IF outcome.kind = "sets"
       THEN /\ numbers' = [numbers EXCEPT !.color = outcome.color]
            /\ queue' = <<Message("ColorNumbers.ColorChanged", outcome.color, "", 0, 0)>>
       ELSE UNCHANGED <<numbers, queue>>
    /\ UNCHANGED <<palette_name, swatches, picker, set_arg, enginevars>>

SetHex ==
    /\ Ready(MaxEvents) /\ ~numbers.disabled
    /\ \E value \in HexSubmits : \E o \in sethex(value) : Submitted("sethex", value, o)

SetHsl ==
    /\ Ready(MaxEvents) /\ ~numbers.disabled
    /\ \E value \in HslSubmits : \E o \in sethsl(numbers.normalized, value) :
          Submitted("sethsl", value, o)

SetRgb ==
    /\ Ready(MaxEvents) /\ ~numbers.disabled
    /\ \E value \in RgbSubmits : \E o \in setrgb(numbers.normalized, value) :
          Submitted("setrgb", value, o)

setname_submitted(max) ==
    /\ Ready(max) /\ ~numbers.disabled
    /\ \E value \in NameSubmits : \E o \in setname(value) : Submitted("setname", value, o)

\* The normalize Switch is flipped; ColorNumbers.normchange redraws.
NormChange ==
    /\ Ready(MaxEvents)
    /\ numbers' = [numbers EXCEPT !.normalized = ~numbers.normalized]
    /\ pc' = "normchange" /\ events' = events + 1
    /\ UNCHANGED <<str, err, palette_name, swatches, picker, queue, set_arg, enginevars>>

\* The mode Select changes: PalettePal.entry_mode(message).  The ryb setter
\* posts ColorChanged before the mode changes.
EntryMode ==
    /\ Ready(MaxEvents)
    /\ \E value \in {"hsl", "ryb", "rgb"} \ {entry_mode_value} :
         LET p1 == IF value = "rgb" THEN picker
                   ELSE [picker EXCEPT !.ryb = (value = "ryb")]
         IN  IF value # "rgb" /\ picker_color_raises(p1)
             THEN picker' = p1 /\ err' = TRUE /\ UNCHANGED <<queue, numbers>>
             ELSE /\ IF value = "rgb" THEN UNCHANGED queue
                     ELSE \E m \in ColorChangedBy(p1) : queue' = <<m>>
                  /\ \E o \in changemode(p1, IF value = "rgb" THEN "rgb" ELSE "hsl") :
                        /\ picker' = o.picker /\ err' = o.raised
                        /\ numbers' = [numbers EXCEPT !.disabled =
                                          IF o.raised THEN numbers.disabled
                                          ELSE value = "ryb"]
    /\ pc' = "entry_mode" /\ events' = events + 1
    /\ UNCHANGED <<str, palette_name, swatches, set_arg, enginevars>>

NextApp ==
    \/ action_select_swatch(MaxEvents) \/ palettechange(MaxEvents)
    \/ action_randomize(MaxEvents) \/ setname_submitted(MaxEvents)
    \/ SetPalette \/ PickerIncrement \/ PickerKey \/ UpdateColor
    \/ ColorChanged \/ ColornumChanged \/ SetHex \/ SetHsl \/ SetRgb
    \/ NormChange \/ EntryMode

SpecApp == InitApp /\ [][NextApp]_vars

---------------------------------------------------------------------------
(* The swatches alone: longer runs of the events that select a swatch,    *)
(* change the palette or set a color, with the handlers they lead to.     *)

MaxSwatchEvents == 5    \* user events in one run of SpecSwatches

NextSwatches ==
    \/ action_select_swatch(MaxSwatchEvents) \/ palettechange(MaxSwatchEvents)
    \/ action_randomize(MaxSwatchEvents) \/ setname_submitted(MaxSwatchEvents)
    \/ SetPalette \/ ColorChanged \/ ColornumChanged

SpecSwatches == InitApp /\ [][NextSwatches]_vars

---------------------------------------------------------------------------
(* Properties *)

ChannelDiff(i) == Abs(rgb1[i] - rgb0[i])

\* No rounding of the conversions so far sat on a boundary: floating point
\* and exact arithmetic agree on the whole run.
RgbToHslExact == Cardinality(rgb_to_hsl(rgb0[1], rgb0[2], rgb0[3])) = 1
HslToRgbExact == Cardinality(hsl_to_rgb(R(hsl[1]), R(hsl[2]), R(hsl[3]))) = 1

\* C1 as stated: after rgb_to_hsl then hsl_to_rgb every channel is within 1
\* of the channel that went in (runs clear of rounding boundaries).
C1_RoundTripWithin1 ==
    (pc = "hsl_to_rgb" /\ RgbToHslExact /\ HslToRgbExact)
        => \A i \in 1 .. 3 : ChannelDiff(i) <= 1

\* C1 amended: after rgb_to_hsl then hsl_to_rgb every channel is within 5
\* of the channel that went in.
C1_RoundTripWithin5 ==
    pc = "hsl_to_rgb" => \A i \in 1 .. 3 : ChannelDiff(i) <= 5

C1_Witness ==
    /\ pc = "hsl_to_rgb" /\ rgb0 = <<2, 228, 230>>
    /\ hsl = <<181, 98, 45>> /\ rgb1 = <<2, 223, 227>>

\* A well-formed hex colour: one optional leading '#', then exactly six
\* hexadecimal digits.
WellFormedHex(s) ==
    LET body == IF Len(s) > 0 /\ s[1] = "#" THEN Tail(s) ELSE s
    IN  Len(body) = 6 /\ \A i \in 1 .. 6 : IsHexDigit(body[i])

\* C2: hex_to_rgb fails on every string that is not a well-formed hex
\* colour (too short, too long, or with a character that is no hex digit).
C2_MalformedHexFails ==
    (pc = "hex_to_rgb" /\ ~WellFormedHex(str)) => err

\* C3: hex_to_rgb(rgb_to_hex(r, g, b)) succeeds and returns (r, g, b).
C3_HexRoundTrip ==
    pc = "hex_round_trip" => (~err /\ rgb1 = rgb0)

C3_Witness ==
    /\ pc = "hex_round_trip" /\ rgb0 = <<1, 128, 255>>
    /\ str = <<"#", "0", "1", "8", "0", "f", "f">> /\ rgb1 = <<1, 128, 255>>

\* C4: rgb_to_hsl returns 0 <= h < 360 and s, l in [0, 100], and so does
\* the hsl of Color.from_rgb (runs clear of rounding boundaries).
C4_HslInRange ==
    /\ (pc = "rgb_to_hsl" /\ RgbToHslExact)
          => (hsl[1] \in 0 .. 359 /\ hsl[2] \in 0 .. 100 /\ hsl[3] \in 0 .. 100)
    /\ (pc = "from_rgb" /\ ~self.ryb /\ RgbToHslExact)
          => (/\ RLe(R(0), self.h) /\ RLt(self.h, R(360))
              /\ RLe(R(0), self.s) /\ RLe(self.s, R(100))
              /\ RLe(R(0), self.l) /\ RLe(self.l, R(100)))

InTurn(x) == RLe(R(0), x) /\ RLt(x, R(360))
SameAngle(a, b) == IsInt(RDiv(RSub(a, b), R(360)))
InPercent(x) == RLe(R(0), x) /\ RLe(x, R(100))
ClampPercent(x) == IF RLt(x, R(0)) THEN R(0)
                   ELSE IF RLt(R(100), x) THEN R(100) ELSE x

C7_LightenSaturateClamp ==
    /\ pc = "lighten"
          => out[1].l = ClampPercent(RMul(args.mult, RAdd(self.l, args.add)))
    /\ pc = "saturate"
          => out[1].s = ClampPercent(RMul(args.mult, RAdd(self.s, args.add)))
    /\ (/\ pc = "lighten" /\ args.mult = R(1)
        /\ self.h = R(180) /\ self.s = R(50) /\ self.l = R(50))
          => (/\ args.add = R(1000) => out[1].l = R(100)
              /\ args.add = R(-1000) => out[1].l = R(0))

C7_Witness ==
    /\ pc = "lighten" /\ args.mult = R(1) /\ args.add = R(1000)
    /\ self.h = R(180) /\ self.s = R(50) /\ self.l = R(50)
    /\ out[1].l = R(100)

\* C8 as stated: the Color returned by lighten or saturate has both s and
\* l within [0, 100], whatever the receiver.
C8_BothInRange ==
    pc \in {"lighten", "saturate"}
        => (InPercent(out[1].s) /\ InPercent(out[1].l))

\* C8 amended: lighten returns l within [0, 100] and saturate returns s
\* within [0, 100]; the other of the two is the receiver's, as it is.
C8_DerivedInRange ==
    /\ pc = "lighten" => (InPercent(out[1].l) /\ out[1].s = self.s)
    /\ pc = "saturate" => (InPercent(out[1].s) /\ out[1].l = self.l)

C8_Witness ==
    /\ pc = "lighten" /\ self.s = R(150) /\ self.l = R(50)
    /\ args.add = R(1000) /\ args.mult = <<3, 2>>
    /\ out[1].l = R(100) /\ out[1].s = R(150)

\* The rotations of each hue harmony, in order.
HarmonyRotations ==
    [complement |-> <<180>>, triad |-> <<120, -120>>,
     analagous |-> <<30, -30>>, compound |-> <<150, -150>>,
     square |-> <<90, 180, 270>>, rectangle |-> <<150, 180, 330>>]

\* C9: each hue harmony returns as many Colors as it has rotations, the
\* i-th being the receiver rotated by the i-th rotation, with the
\* receiver's saturation, lightness and ryb flag.
C9_HarmonyOrder ==
    \A name \in DOMAIN HarmonyRotations :
        pc = name =>
            LET rot == HarmonyRotations[name]
            IN  /\ Len(out) = Len(rot)
                /\ \A i \in 1 .. Len(rot) :
                      /\ InTurn(out[i].h)
                      /\ SameAngle(out[i].h, RAdd(self.h, R(rot[i])))
                      /\ out[i].s = self.s /\ out[i].l = self.l
                      /\ out[i].ryb = self.ryb

C9_Witness ==
    /\ pc = "square" /\ self = Color(R(0), R(100), R(50), FALSE)
    /\ out = <<Color(R(90), R(100), R(50), FALSE),
               Color(R(180), R(100), R(50), FALSE),
               Color(R(270), R(100), R(50), FALSE)>>

\* C10: shades returns four Colors with lightness clamp(l / 2),
\* clamp(l - 20), clamp(l + 20), clamp(3 l / 2) in this order, each with
\* the receiver's hue, saturation and ryb flag.
C10_Shades ==
    pc = "shades" =>
        /\ Len(out) = 4
        /\ out[1].l = ClampPercent(RDiv(self.l, R(2)))
        /\ out[2].l = ClampPercent(RSub(self.l, R(20)))
        /\ out[3].l = ClampPercent(RAdd(self.l, R(20)))
        /\ out[4].l = ClampPercent(RDiv(RMul(R(3), self.l), R(2)))
        /\ \A i \in 1 .. 4 : /\ out[i].h = self.h /\ out[i].s = self.s
                             /\ out[i].ryb = self.ryb

C10_Witness ==
    /\ pc = "shades" /\ self = Color(R(0), R(100), R(50), TRUE)
    /\ out[1].l = R(25) /\ out[2].l = R(30)
    /\ out[3].l = R(70) /\ out[4].l = R(75)

\* x is approximately the integer v: less than 1 away from it.
Approximately(x, v) == RLt(RSub(R(v), R(1)), x) /\ RLt(x, RAdd(R(v), R(1)))

IsPureRed(c) == c.h = R(0) /\ c.s = R(100) /\ c.l = R(50)

\* C11 as stated: Color(0, 100, 50).shades() returns four Colors with
\* lightness 25, approximately 16, approximately 60 and 75, in this order.
C11_ShadesOfRed_16_60 ==
    (pc = "shades" /\ IsPureRed(self)) =>
        /\ Len(out) = 4
        /\ out[1].l = R(25) /\ Approximately(out[2].l, 16)
        /\ Approximately(out[3].l, 60) /\ out[4].l = R(75)

\* C11 amended: Color(0, 100, 50).shades() returns four Colors with
\* lightness 25, 30, 70 and 75, in this order.
C11_ShadesOfRed ==
    (pc = "shades" /\ IsPureRed(self)) =>
        /\ Len(out) = 4
        /\ out[1].l = R(25) /\ out[2].l = R(30)
        /\ out[3].l = R(70) /\ out[4].l = R(75)

C11_Witness ==
    /\ pc = "shades" /\ self = Color(R(0), R(100), R(50), FALSE)
    /\ out = <<Color(R(0), R(100), R(25), FALSE), Color(R(0), R(100), R(30), FALSE),
               Color(R(0), R(100), R(70), FALSE), Color(R(0), R(100), R(75), FALSE)>>

\* C12: ryb_to_rgb((0, 0, 0)) is (255, 255, 255) and
\* ryb_to_rgb((255, 255, 255)) is (0, 0, 0): the RYB origin is white and the
\* full RYB corner is black.
C12_RybCorners ==
    pc = "ryb_to_rgb" =>
        /\ rgb0 = <<0, 0, 0>> => rgb1 = <<255, 255, 255>>
        /\ rgb0 = <<255, 255, 255>> => rgb1 = <<0, 0, 0>>

C12_Witness ==
    pc = "ryb_to_rgb" /\ rgb0 = <<255, 255, 255>> /\ rgb1 = <<0, 0, 0>>

\* C16: RGB -> RYB -> RGB is lossy: there is an integer RGB triple x with
\* ryb_to_rgb(rgb_to_ryb(x)) # x.  Pure blue (0, 0, 255) is one: it goes to
\* RYB (0, 0, 255) and comes back as (42, 95, 153).
C16_RybRoundTripLossy ==
    (pc = "ryb_round_trip" /\ rgb0 = <<0, 0, 255>>)
        => (ryb1 = <<0, 0, 255>> /\ rgb1 = <<42, 95, 153>> /\ rgb1 # rgb0)

C16_Witness ==
    /\ pc = "ryb_round_trip" /\ rgb0 = <<0, 0, 255>>
    /\ ryb1 = <<0, 0, 255>> /\ rgb1 = <<42, 95, 153>> /\ rgb1 # rgb0

IsGray(t) == t[1] = t[2] /\ t[2] = t[3]

\* C18: rgb_to_hsl(v, v, v) has saturation 0 for every gray level v in
\* [0, 255], and hsl_to_rgb(h, 0, l) has r = g = b for every h in [0, 360)
\* and l in [0, 100].
C18_Achromatic ==
    /\ (pc = "rgb_to_hsl" /\ IsGray(rgb0)) => hsl[2] = 0
    /\ (/\ pc = "hsl_to_rgb_direct" /\ hsl[1] \in 0 .. 359
        /\ hsl[2] = 0 /\ hsl[3] \in 0 .. 100) => IsGray(rgb1)

C18_Witness ==
    pc = "hsl_to_rgb_direct" /\ hsl = <<270, 0, 33>> /\ rgb1 = <<84, 84, 84>>

ColorOps == {"rotate", "lighten", "saturate", "complement", "triad",
             "analagous", "compound", "square", "rectangle", "shades"}

\* C13: rotate, lighten, saturate and every harmony leave the receiver's
\* hsl and ryb flag as they were and return Colors with the receiver's ryb
\* flag; rotate returns the receiver's s and l, lighten its h and s,
\* saturate its h and l.
C13_Frame ==
    [][(pc = "in_color" /\ pc' \in ColorOps) =>
          /\ self' = self
          /\ Len(out') >= 1
          /\ \A i \in 1 .. Len(out') : out'[i].ryb = self.ryb
          /\ pc' = "rotate" => (out'[1].s = self.s /\ out'[1].l = self.l)
          /\ pc' = "lighten" => (out'[1].h = self.h /\ out'[1].s = self.s)
          /\ pc' = "saturate" => (out'[1].h = self.h /\ out'[1].l = self.l)]_vars

C13_Witness ==
    /\ pc = "saturate" /\ self = Color(R(90), R(50), R(50), TRUE)
    /\ args.add = R(20) /\ args.mult = R(1)
    /\ out = <<Color(R(90), R(70), R(50), TRUE)>>

\* A Color with integer h in [0, 360) and integer s, l in [0, 100].
IsValidColor(c) ==
    /\ IsInt(c.h) /\ InTurn(c.h)
    /\ IsInt(c.s) /\ InPercent(c.s)
    /\ IsInt(c.l) /\ InPercent(c.l)

IsByteTriple(t) == Len(t) = 3 /\ \A i \in 1 .. 3 : t[i] \in 0 .. 255

\* C14: for a Color with integer h in [0, 360) and s, l in [0, 100], with
\* the ryb flag set or clear, the rgb view and the ryb view are each three
\* integer channels in [0, 255].
C14_ViewsInRange ==
    (pc = "views" /\ IsValidColor(self))
        => (IsByteTriple(view.rgb) /\ IsByteTriple(view.ryb))

C14_Witness ==
    /\ pc = "views" /\ self = Color(R(90), R(50), R(50), TRUE)
    /\ view.rgb = <<196, 154, 41>> /\ view.ryb = <<128, 191, 64>>

\* C15: hex is rgb_to_hex(rgb); with the ryb flag set, ryb is
\* hsl_to_rgb(hsl) and rgb is ryb_to_rgb(ryb); with the flag clear, rgb is
\* hsl_to_rgb(hsl) and ryb is rgb_to_ryb(rgb).
C15_ViewsFromHsl ==
    pc = "views" =>
        /\ view.hex = rgb_to_hex(view.rgb[1], view.rgb[2], view.rgb[3])
        /\ self.ryb => /\ view.ryb \in hsl_to_rgb(self.h, self.s, self.l)
                       /\ view.rgb \in ryb_to_rgb(view.ryb)
        /\ ~self.ryb => /\ view.rgb \in hsl_to_rgb(self.h, self.s, self.l)
                        /\ view.ryb \in rgb_to_ryb(view.rgb)

C15_Witness ==
    /\ pc = "views" /\ self = Color(R(240), R(50), R(25), FALSE)
    /\ view = [rgb |-> <<32, 32, 96>>, ryb |-> <<142, 142, 211>>,
               hex |-> <<"#", "2", "0", "2", "0", "6", "0">>]

HslToRgbTieFree(c) == Cardinality(hsl_to_rgb(c.h, c.s, c.l)) = 1

LowerHexChars == {"0", "1", "2", "3", "4", "5", "6", "7", "8", "9",
                  "a", "b", "c", "d", "e", "f"}

\* C19: for r, g, b in [0, 255] rgb_to_hex returns 7 characters: '#', then
\* for each of r, g, b exactly two lower-case hexadecimal digits, padded
\* with a zero, that spell the channel.
C19_HexFormat ==
    (pc = "rgb_to_hex" /\ IsByteTriple(rgb0)) =>
        /\ Len(str) = 7 /\ str[1] = "#"
        /\ \A i \in 1 .. 3 :
              /\ str[2 * i] \in LowerHexChars /\ str[2 * i + 1] \in LowerHexChars
              /\ 16 * HexVal(str[2 * i]) + HexVal(str[2 * i + 1]) = rgb0[i]

C19_Witness ==
    /\ pc = "rgb_to_hex" /\ rgb0 = <<0, 171, 255>>
    /\ str = <<"#", "0", "0", "a", "b", "f", "f">>

\* C20: from_name succeeds exactly for the names that have an entry in the
\* name table, and then returns the standard-space Color that from_rgb
\* builds from the entry; for every other string it fails and makes no
\* Color.
C20_FromNameExactlyNames ==
    pc = "from_name" =>
        IF str \in DOMAIN COLOR_NAME_TO_RGB
        THEN LET e == COLOR_NAME_TO_RGB[str]
             IN  ~err /\ self \in from_rgb(e[1], e[2], e[3], FALSE)
        ELSE err /\ self = NoColor

\* The value the corner of a table holds, as convert returns it: the
\* triple of <<A, B>> pairs standing for (1000 A + B) / (255^3 * 1000).
CornerValue(ab) ==
    RAdd(RMul(R(1000), Rat(ab[1], 16581375)), Rat(ab[2], 16581375))

IsCorner(t) == \A i \in 1 .. 3 : t[i] \in {0, 255}

\* C22: at the corners of the cube convert returns the table's entry, the
\* first dimension being the most significant bit of the index: for x, y,
\* z in {0, 1} and either table, convert(x, y, z, table) is
\* table[4 x + 2 y + z]; with the RYB -> RGB table (1, 0, 0) gives red
\* (1, 0, 0), (0, 1, 0) yellow (1, 1, 0) and (0, 0, 1) (0.163, 0.373, 0.6).
C22_ConvertCorners ==
    (pc = "convert" /\ IsCorner(rgb0)) =>
        LET table == IF cvt.table = "RGB_TO_RYB" THEN RGB_TO_RYB
                     ELSE IRISSON_RYB_TO_RGB
            x == rgb0[1] \div 255
            y == rgb0[2] \div 255
            z == rgb0[3] \div 255
            val == [ch \in 1 .. 3 |-> CornerValue(cvt.val[ch])]
        IN  /\ \A ch \in 1 .. 3 : val[ch] = R(table[4 * x + 2 * y + z + 1][ch])
            /\ cvt.table = "IRISSON_RYB_TO_RGB" =>
                  /\ rgb0 = <<255, 0, 0>> => val = <<R(1000), R(0), R(0)>>
                  /\ rgb0 = <<0, 255, 0>> => val = <<R(1000), R(1000), R(0)>>
                  /\ rgb0 = <<0, 0, 255>> => val = <<R(163), R(373), R(600)>>

C22_Witness ==
    /\ pc = "convert" /\ rgb0 = <<0, 0, 255>> /\ cvt.table = "IRISSON_RYB_TO_RGB"
    /\ \A ch \in 1 .. 3 :
          CornerValue(cvt.val[ch]) = R(<<163, 373, 600>>[ch])

\* C26: after any sequence of action_increment calls and key presses on a
\* Slider whose value starts within [0, maximum], its value is within
\* [0, maximum].
C26_SliderInRange ==
    slider.value >= 0 /\ slider.value <= slider.maximum


\* C21: submitting a malformed hex string (wrong length or a character that
\* is no hex digit) in the hex Input is ignored: sethex lets no exception
\* escape, the color of ColorNumbers is unchanged and no ColorChanged is
\* posted.
C21_MalformedHexIgnored ==
    [][(pc' = "sethex" /\ ~WellFormedHex(str'))
        => (~err' /\ numbers'.color = numbers.color /\ queue' = queue)]_vars

\* C23: fill_palette(name) puts the harmony of swatch #1's color in the
\* slots that follow, in order: for a harmony of n colors swatch #(i+2)
\* gets color i (i = 0..n-1), swatch #1 keeps its color, and swatch #k is
\* displayed exactly when k <= n+1.  fill_palette runs in set_palette on the
\* swatches as they are and in set_color once swatch #1 has the new color.
C23_FillPaletteSlots ==
    [][(/\ pc' \in {"set_palette", "colorchanged", "colornum_changed"}
        /\ palette_name' \in Harmonies /\ ~err')
        => LET basecolor == IF pc' = "set_palette" THEN swatches[1].color
                            ELSE Head(queue).color
               colors == HarmonyOf(palette_name', basecolor)
               n == Len(colors)
           IN  /\ swatches'[1].color = basecolor
               /\ \A i \in 0 .. n - 1 : swatches'[i + 2].color = colors[i + 1]
               /\ \A k \in 1 .. 5 : swatches'[k].display <=> (k <= n + 1)]_vars

C23_Witness ==
    /\ pc = "set_palette" /\ palette_name = "Complementary"
    /\ swatches[2].color = complement(swatches[1].color)[1]
    /\ swatches[2].color # swatches[1].color
    /\ swatches[2].display /\ ~swatches[3].display

\* C24: in custom palette mode set_color(c) changes the color of exactly
\* one swatch, the selected one, to c and leaves the colors of the other
\* four as they were.
C24_CustomSetsOneSwatch ==
    [][(/\ pc' \in {"colorchanged", "colornum_changed"}
        /\ palette_name = "custom" /\ ~err')
        => \E k \in 1 .. 5 :
              /\ swatches[k].selected
              /\ swatches'[k].color = Head(queue).color
              /\ \A j \in (1 .. 5) \ {k} : swatches'[j].color = swatches[j].color]_vars

\* C25: after any sequence of action_select_swatch and set_palette events
\* at most one of the five swatches is selected.
C25_AtMostOneSelected ==
    Cardinality({k \in 1 .. 5 : swatches[k].selected}) <= 1

\* C27, as stated: while a named harmony is selected, after every handled
\* color change (ColorPicker.ColorChanged, ColorNumbers.ColorChanged,
\* randomize, swatch selection) swatch #1 holds the color set last and
\* swatches #2..#(n+1) hold the ordered harmony of swatch #1's color.
HarmonyShown ==
    LET colors == HarmonyOf(palette_name, swatches[1].color)
    IN  \A i \in 1 .. Len(colors) : swatches[i + 1].color = colors[i]

C27_LastSetInSwatch1 ==
    (/\ palette_name \in Harmonies /\ ~err
     /\ pc \in {"colorchanged", "colornum_changed", "action_select_swatch"})
    => (swatches[1].color = set_arg /\ HarmonyShown)

\* C27, amended: while a named harmony is selected, after a handled
\* ColorPicker.ColorChanged (a randomize included) or ColorNumbers.ColorChanged
\* swatch #1 holds the color of the message, and after these and after a
\* swatch selection swatches #2..#(n+1) hold the ordered harmony of swatch
\* #1's color.  A swatch selection sets no color: swatch #1 keeps the color
\* it had, which is not the color set last when that one went to another
\* swatch in custom mode.
C27_HarmonyKept ==
    (/\ palette_name \in Harmonies /\ ~err
     /\ pc \in {"colorchanged", "colornum_changed", "action_select_swatch"})
    => /\ pc # "action_select_swatch" => swatches[1].color = set_arg
       /\ HarmonyShown

C27_Witness ==
    /\ pc = "colornum_changed" /\ palette_name = "Triadic" /\ ~err
    /\ swatches[1].color = set_arg /\ set_arg # MountColor
    /\ swatches[2].color = rotate(set_arg, R(120))
    /\ swatches[3].color = rotate(set_arg, R(240))

\* C28: changemode keeps the selected color: after the switch from 'hsl' to
\* 'rgb' the three slider values are the r, g, b of the color selected
\* before it, and after the switch from 'rgb' to 'hsl' its h, s, l.
C28_ChangemodeKeepsColor ==
    [][(pc' = "entry_mode" /\ picker'.mode # picker.mode)
        => \E c \in picker_color(picker) :
              IF picker'.mode = "rgb"
              THEN picker'.value \in RgbOf(c)
              ELSE picker'.value = <<TruncInt(c.h), TruncInt(c.s), TruncInt(c.l)>>]_vars

\* C29: three comma-separated integers "(h, s, l)" submitted in the HSL
\* Input set the color of ColorNumbers to Color(h, s, l) with normalization
\* off, to Color(360 h, 100 s, 100 l) with it on, and post one ColorChanged.
HslTexts ==
    (<<"(", "0", ",", " ", "5", "0", ",", " ", "2", "5", ")">> :> <<0, 50, 25>>)
    @@ (<<"(", "1", ",", " ", "0", ",", " ", "1", ")">> :> <<1, 0, 1>>)

C29_SetHslSetsColor ==
    (pc = "sethsl" /\ str \in DOMAIN HslTexts)
    => LET t == HslTexts[str]
           k == IF numbers.normalized THEN <<360, 100, 100>> ELSE <<1, 1, 1>>
           color == Color(R(t[1] * k[1]), R(t[2] * k[2]), R(t[3] * k[3]), FALSE)
       IN  /\ ~err
           /\ numbers.color = color
           /\ queue = <<Message("ColorNumbers.ColorChanged", color, "", 0, 0)>>

===========================================================================
